---- MODULE Spec2Model ----
(***************************************************************************)
(* Model of the acquisition loop of ozone-logger.py: the calibration       *)
(* schedule, the frame parser, the predicted-timestamp clock check and the *)
(* log file rotation.  Times are whole seconds; a wall-clock value t is    *)
(* seconds since midnight of day 0, so its date is t \div Day.  A text is  *)
(* a sequence of tokens: a position token such as "05;17H" stands for the  *)
(* nine characters ESC [ 0 5 ; 1 7 H NUL, "ESC[" for the start of any      *)
(* other escape sequence, " " and "\n" for white space, any other token    *)
(* for a word.                                                             *)
(***************************************************************************)
EXTENDS Integers, Sequences, FiniteSets, TLC

\* ---------------------------------------------------------------- bounds
MaxIter == 3
MaxEvents == 2

\* wall-clock times at which the process may be started
StartTimes == {54299, 86379}
\* sizes of an external adjustment of the wall clock (NTP step, manual set)
StepSecs == {-300, -50, 300}
\* values the analog input may return
AnalogReadings == {2}

\* ------------------------------------------------------ control variables
cal_start_hour == 15
cal_span_secs == 300
cal_zero_secs == 300
time_exception_secs == 100
flush_after_secs == 60
ser_timeout == 20

Day == 86400
Hour == 3600

basevarnames == <<"datetime", "calmode", "O3_volts">>
varnames == <<"O3_ppb", "fault", "mode", "abscoef", "offset_ppb", "temp_c",
              "pres_atm", "cont_hz", "samp_hz">>
position == <<"05;17H", "07;12H", "07;25H", "07;38H", "07;56H", "08;11H",
              "09;11H", "10;11H", "10;32H">>
unit == <<"ppm", "", "", "", "", "C", "ATM", "", "">>
headernames == basevarnames \o varnames

\* ------------------------------------------------------------------- state
VARIABLES
    pc,                  \* the statement the process is at
    iter,                \* completed loop iterations
    exit_code,           \* the process's exit code, -1 while it runs
    mono,                \* time.monotonic()
    wall,                \* datetime.datetime.now()
    newfile_exists,      \* whether newfile_path exists as a file
    hat_ok,              \* whether explorerhat was imported
    span_on, zero_on,    \* what the two digital outputs report
    span_cmd, zero_cmd,  \* the last command given to each output
    sent_d,              \* number of 'd' bytes written to the instrument
    walltime, request_calmode, datline, serialvector,
    secs_since_write, secs_since_flush,
    outfile_open, last_dt, pred_dt, curr_dt, diff_secs, newfile_request,
    lastwrite_monotonic, lastflush_monotonic, totalvector,
    outfile,             \* the file outfile is bound to
    handles,             \* file objects that are open
    nopened, nclosed,    \* files opened and closed so far
    console,             \* the last line printed
    nwritten, nprinted,  \* data lines written to files, lines printed
    nevents,             \* environment events so far
    step_since_confirm,  \* net wall-clock adjustment since line 167 last ran
    step_since_basis,    \* net adjustment since last_dt's value was sampled
    untracked            \* seconds elapsed that secs_since_write leaves out

env == <<mono, wall, newfile_exists, span_on, zero_on, nevents>>
hist == <<step_since_confirm, step_since_basis, untracked>>
startup == <<exit_code, hat_ok, sent_d>>
sched == <<walltime, request_calmode, span_cmd, zero_cmd>>
parsed == <<datline, serialvector>>
clock == <<secs_since_write, secs_since_flush, last_dt, pred_dt, curr_dt,
           diff_secs, lastwrite_monotonic, lastflush_monotonic>>
files == <<outfile_open, newfile_request, totalvector, outfile, handles,
           nopened, nclosed, console, nwritten, nprinted>>
vars == <<pc, iter, env, hist, startup, sched, parsed, clock, files>>

\* ------------------------------------------------------------ time helpers
Abs(x) == IF x < 0 THEN -x ELSE x

\* datetime.date(): the calendar day of a wall-clock time
date(t) == t \div Day

\* walltime.replace(hour=h, minute=0, second=0, microsecond=0)
replace_hour(t, h) == date(t) * Day + h * Hour

\* ------------------------------------------------------- Calibration Scheduler
\* lines 88-98: the requested mode at wall-clock time t
calc_request_calmode(t) ==
    LET calspan == replace_hour(t, cal_start_hour)
        calzero == calspan + cal_span_secs
        calend  == calzero + cal_zero_secs
        r1 == IF t > calspan /\ t < calzero THEN 3 ELSE 0
    IN  IF t > calzero /\ t < calend THEN 1 ELSE r1

\* lines 99-102: request_calmode & 2 selects span.on() or span.off()
span_command(r) == IF (r \div 2) % 2 = 1 THEN "on" ELSE "off"

\* lines 103-106: request_calmode & 1 selects zero.on() or zero.off()
zero_command(r) == IF r % 2 = 1 THEN "on" ELSE "off"

\* as read_calmode, but the record carries the requested mode
read_calmode_requested(s, z) == request_calmode

\* line 152: int(span.is_on()) << 1 | int(zero.is_on())
read_calmode(s, z) == 2 * (IF s THEN 1 ELSE 0) + (IF z THEN 1 ELSE 0)

\* ---------------------------------------------------------------- Frame Parser
Whitespace == {" ", "\n"}
NaN == <<"NaN">>
EmptyStr == <<>>

SetMin(S) == CHOOSE x \in S : \A y \in S : x <= y
SetMax(S) == CHOOSE x \in S : \A y \in S : x >= y

\* a token that begins with ESC [
IsEsc(tok) == tok = "ESC[" \/ \E i \in 1..Len(position) : position[i] = tok

\* str.find of one token: the first index, 0 when absent (Python's -1)
find(s, tok) ==
    LET hits == {i \in 1..Len(s) : s[i] = tok}
    IN  IF hits = {} THEN 0 ELSE SetMin(hits)

\* str.strip()
strip(s) ==
    LET keep == {i \in 1..Len(s) : s[i] \notin Whitespace}
    IN  IF keep = {} THEN <<>> ELSE SubSeq(s, SetMin(keep), SetMax(keep))

\* s.split('\x1b[')[0]
split_esc_first(s) ==
    LET hits == {i \in 1..Len(s) : IsEsc(s[i])}
    IN  IF hits = {} THEN s ELSE SubSeq(s, 1, SetMin(hits) - 1)

\* s.split(' ')[0]
split_space_first(s) ==
    LET hits == {i \in 1..Len(s) : s[i] = " "}
    IN  IF hits = {} THEN s ELSE SubSeq(s, 1, SetMin(hits) - 1)

\* dataval.find(unit[ix]) > -1: the empty unit is found in any text
has_unit(dataval, u) == u = "" \/ find(dataval, u) > 0

\* line 121: datline[(strloc+9):].strip().split('\x1b[')[0]
dataval_at(raw, strloc) ==
    split_esc_first(strip(SubSeq(raw, strloc + 1, Len(raw))))

\* lines 118-125: one pass of the loop over position
parse_field(raw, ix) ==
    LET strloc == find(raw, position[ix])
    IN  IF strloc > 0 /\ has_unit(dataval_at(raw, strloc), unit[ix])
        THEN split_space_first(dataval_at(raw, strloc))
        ELSE EmptyStr

\* float(): the words that parse as a number
IsFloat(v) == Len(v) = 1 /\ v[1] \in {"0.032", "0", "308", "25.1", "0.987", "4400"}

\* str(1000*float(w))
ppb_str(w) ==
    CASE w = "0.032" -> "32.0"
      [] w = "0"     -> "0.0"
      [] w = "308"   -> "308000.0"
      [] w = "25.1"  -> "25100.0"
      [] w = "0.987" -> "987.0"
      [] w = "4400"  -> "4400000.0"
      [] OTHER       -> "NaN"

\* as ozone_ppb, but a failed conversion leaves the field as it was
ozone_ppb_unchanged(v) == IF IsFloat(v) THEN <<ppb_str(v[1])>> ELSE v

\* lines 128-131
ozone_ppb(v) == IF IsFloat(v) THEN <<ppb_str(v[1])>> ELSE NaN

\* lines 115-131: the nine parsed fields of one raw line
parse_line(raw) ==
    [ix \in 1..Len(position) |->
        IF ix = 1 THEN ozone_ppb(parse_field(raw, 1))
        ELSE parse_field(raw, ix)]

\* raw lines the serial read may return
EmptyLine == <<>>
PartFrame == <<"05;17H", "0.032", " ", "ppm",
               "07;12H", "0",
               "07;38H", "308",
               "08;11H", "25.1",
               "09;11H", " ", "0.987", " ", "ATM",
               "ESC[", "x",
               "10;32H", "4400", "\n">>
Lines == {EmptyLine, PartFrame}

\* raw lines with no usable ozone field: nothing, a frame cut after the ozone
\* anchor, a frame cut after the number (before the unit), text with no anchor,
\* an anchor followed by a word that is not a number
GarbledLines == {EmptyLine,
                 <<"05;17H">>,
                 <<"05;17H", "0.032">>,
                 <<"0.032", " ", "ppm", "\n">>,
                 <<"05;17H", "x", " ", "ppm">>}

\* seconds a frame takes to arrive when the instrument answers
FrameSecs == {1}

\* line 109: the time readline() blocks for a line
read_secs(line) == IF line = EmptyLine THEN {ser_timeout} ELSE FrameSecs

\* ---------------------------------------------------------------- log files
\* as header_line, without the three base names
header_line_short == [kind |-> "header", vec |-> varnames]

\* line 140: the header written when a file is opened
header_line == [kind |-> "header", vec |-> headernames]
data_line(v) == [kind |-> "data", vec |-> v]

\* as exception_line, with the two times in the other order
exception_line_swapped(curr, pred, diff) == [kind |-> "shift", vec |-> <<pred, curr, diff>>]

\* lines 171-176: the time-shift annotation
exception_line(curr, pred, diff) == [kind |-> "shift", vec |-> <<curr, pred, diff>>]

\* line 138: open(os.path.join(reppath, outfilename), 'w')
new_file(name) == [name |-> name, lines |-> <<>>, flushed |-> 0]

\* outfile.write(line)
file_write(f, line) == [f EXCEPT !.lines = Append(@, line)]

\* outfile.flush(), also done by outfile.close()
file_flush(f) == [f EXCEPT !.flushed = Len(f.lines)]

\* ------------------------------------------------------------ loop decisions
\* line 110: datline is a str after decode(), and a str never equals b''
is_empty_bytes(line) == FALSE

\* as need_open, but a file is opened in every iteration
need_open_always(is_open) == TRUE

\* line 136
need_open(is_open) == ~is_open

\* as predict, with the elapsed seconds left out
predict_no_elapsed(last, secs) == last

\* as predict, with the elapsed seconds subtracted
predict_subtract(last, secs) == last - secs

\* line 147
predict(last, secs) == last + secs

\* as flush_due, with the interval itself counted as exceeded
flush_due_inclusive(secs) == secs >= flush_after_secs

\* line 161
flush_due(secs) == secs > flush_after_secs

\* as time_shifted, but without abs(): only a forward shift is seen
time_shifted_forward(diff) == diff > time_exception_secs

\* line 170
time_shifted(diff) == Abs(diff) > time_exception_secs

\* as newfile_requested, but the path is never found
newfile_requested_never(exists) == FALSE

\* line 182: os.path.exists(newfile_path) and os.path.isfile(newfile_path)
newfile_requested(exists) == exists

\* as date_changed, with the comparison reversed
date_changed_reversed(last, curr) == date(last) > date(curr)

\* line 184: last_dt.date() < curr_dt.date()
date_changed(last, curr) == date(last) < date(curr)

\* as flag_after_close, but the flag is left set
flag_after_close_stale == TRUE

\* lines 179, 186: the flag after outfile.close()
flag_after_close == FALSE

\* as mark_after_write, but the mark is never moved
mark_after_write_stale(now) == lastwrite_monotonic

\* line 193: lastwrite_monotonic = time.monotonic()
mark_after_write(now) == now

Init ==
    /\ pc = "serial" /\ iter = 0 /\ exit_code = -1
    /\ mono = 0 /\ wall \in StartTimes
    /\ newfile_exists = FALSE /\ hat_ok = FALSE
    /\ span_on = FALSE /\ zero_on = FALSE
    /\ span_cmd = "none" /\ zero_cmd = "none"
    /\ sent_d = 0
    /\ walltime = 0 /\ request_calmode = 0
    /\ datline = <<>> /\ serialvector = <<>>
    /\ secs_since_write = 0 /\ secs_since_flush = 0
    /\ outfile_open = FALSE /\ last_dt = 0 /\ pred_dt = 0 /\ curr_dt = 0
    /\ diff_secs = 0 /\ newfile_request = FALSE
    /\ lastwrite_monotonic = 0 /\ lastflush_monotonic = 0
    /\ totalvector = <<>>
    /\ outfile = new_file(0) /\ handles = 0 /\ nopened = 0 /\ nclosed = 0
    /\ console = <<>> /\ nwritten = 0 /\ nprinted = 0
    /\ nevents = 0
    /\ step_since_confirm = 0 /\ step_since_basis = 0 /\ untracked = 0

\* ---------------------------------------------------------------- startup
\* as after_serial_failure, but the failure is only printed
after_serial_failure_goes_on == "hat"

\* lines 61-63: print and exit(1)
after_serial_failure == "exited"

\* lines 50-63: open and configure the serial port, request diagnostic mode
SerialSetup ==
    /\ pc = "serial"
    /\ \/ /\ sent_d' = sent_d + 1
          /\ pc' = "hat"
          /\ UNCHANGED exit_code
       \/ /\ pc' = after_serial_failure
          /\ exit_code' = 1
          /\ UNCHANGED sent_d
    /\ UNCHANGED <<iter, env, hist, hat_ok, sched, parsed, clock, files>>

\* lines 65-81: import explorerhat (a failure is only printed), set the marks
HatImport ==
    /\ pc = "hat"
    /\ hat_ok' \in BOOLEAN
    /\ lastwrite_monotonic' = mono
    /\ lastflush_monotonic' = mono
    /\ pc' = "sample"
    /\ UNCHANGED <<iter, env, hist, exit_code, sent_d, sched, parsed, files,
                   secs_since_write, secs_since_flush, last_dt, pred_dt,
                   curr_dt, diff_secs>>

\* ------------------------------------------------------------ the main loop
\* lines 84-106: sample the wall clock, compute the request, command the outputs.
\* Without explorerhat the name span is undefined and line 100 or 102 raises.
Schedule ==
    /\ pc = "sample"
    /\ iter < MaxIter
    /\ walltime' = wall
    /\ request_calmode' = calc_request_calmode(wall)
    /\ IF hat_ok
       THEN /\ span_cmd' = span_command(request_calmode')
            /\ zero_cmd' = zero_command(request_calmode')
            /\ span_on' = (span_cmd' = "on")
            /\ zero_on' = (zero_cmd' = "on")
            /\ pc' = "read"
            /\ UNCHANGED exit_code
       ELSE /\ pc' = "crashed"
            /\ exit_code' = 1
            /\ UNCHANGED <<span_cmd, zero_cmd, span_on, zero_on>>
    /\ UNCHANGED <<iter, mono, wall, newfile_exists, nevents, hist, hat_ok, sent_d, parsed, clock, files>>

\* lines 109-131: block for a line, then parse it
ReadParse ==
    /\ pc = "read"
    /\ \E line \in Lines : \E d \in read_secs(line) :
         /\ mono' = mono + d
         /\ wall' = wall + d
         /\ datline' = line
         /\ sent_d' = IF is_empty_bytes(line) THEN sent_d + 1 ELSE sent_d
         /\ serialvector' = parse_line(line)
    /\ pc' = "open"
    /\ UNCHANGED <<iter, newfile_exists, span_on, zero_on, nevents, hist,
                   exit_code, hat_ok, sched, clock, files>>

\* lines 133-145: elapsed times, and a new file with its header when none is open
OpenFile ==
    /\ pc = "open"
    /\ IF need_open(outfile_open)
       THEN /\ outfile' = file_write(new_file(wall), header_line)
            /\ handles' = handles + 1
            /\ nopened' = nopened + 1
            /\ outfile_open' = TRUE
            /\ last_dt' = wall
            /\ secs_since_write' = 0
            /\ secs_since_flush' = 0
            /\ step_since_basis' = 0
            /\ untracked' = 0
       ELSE /\ secs_since_write' = mono - lastwrite_monotonic
            /\ secs_since_flush' = mono - lastflush_monotonic
            /\ UNCHANGED <<outfile, handles, nopened, outfile_open, last_dt,
                           step_since_basis, untracked>>
    /\ pc' = "write"
    /\ UNCHANGED <<iter, env, step_since_confirm, startup, sched, parsed,
                   pred_dt, curr_dt, diff_secs, lastwrite_monotonic,
                   lastflush_monotonic, newfile_request, totalvector, nclosed,
                   console, nwritten, nprinted>>

\* lines 146-159: predict the timestamp, read the outputs back, write the record.
\* A write to a closed file raises ValueError.
WriteLine ==
    /\ pc = "write"
    /\ pred_dt' = predict(last_dt, secs_since_write)
    /\ \E volts \in AnalogReadings :
         totalvector' = <<pred_dt', read_calmode(span_on, zero_on), volts>>
                        \o serialvector
    /\ IF handles > 0
       THEN /\ outfile' = file_write(outfile, data_line(totalvector'))
            /\ nwritten' = nwritten + 1
            /\ pc' = "flush"
            /\ UNCHANGED exit_code
       ELSE /\ pc' = "crashed"
            /\ exit_code' = 1
            /\ UNCHANGED <<outfile, nwritten>>
    /\ UNCHANGED <<iter, env, hist, hat_ok, sent_d, sched, parsed,
                   secs_since_write, secs_since_flush, last_dt, curr_dt,
                   diff_secs, lastwrite_monotonic, lastflush_monotonic,
                   outfile_open, newfile_request, handles, nopened, nclosed,
                   console, nprinted>>

\* lines 160-165: flush when due, echo the record
FlushPrint ==
    /\ pc = "flush"
    /\ IF flush_due(secs_since_flush)
       THEN /\ outfile' = file_flush(outfile)
            /\ lastflush_monotonic' = mono
       ELSE UNCHANGED <<outfile, lastflush_monotonic>>
    /\ console' = totalvector
    /\ nprinted' = nprinted + 1
    /\ pc' = "check"
    /\ UNCHANGED <<iter, env, hist, startup, sched, parsed, secs_since_write,
                   secs_since_flush, last_dt, pred_dt, curr_dt, diff_secs,
                   lastwrite_monotonic, outfile_open, newfile_request,
                   totalvector, handles, nopened, nclosed, nwritten>>

\* lines 166-188: compare the wall clock with the prediction; annotate and close
\* on a time shift, otherwise close on a rotation request or a change of date
CheckRotate ==
    /\ pc = "check"
    /\ curr_dt' = wall
    /\ diff_secs' = wall - pred_dt
    /\ IF time_shifted(diff_secs')
       THEN /\ outfile' = file_flush(file_write(outfile,
                              exception_line(wall, pred_dt, diff_secs')))
            /\ handles' = handles - 1
            /\ nclosed' = nclosed + 1
            /\ outfile_open' = flag_after_close
            /\ UNCHANGED <<newfile_request, newfile_exists>>
       ELSE /\ newfile_request' = newfile_requested(newfile_exists)
            /\ IF newfile_request' \/ date_changed(last_dt, curr_dt')
               THEN /\ outfile' = file_flush(outfile)
                    /\ handles' = handles - 1
                    /\ nclosed' = nclosed + 1
                    /\ outfile_open' = flag_after_close
                    /\ newfile_exists' = IF newfile_request' THEN FALSE
                                         ELSE newfile_exists
               ELSE UNCHANGED <<outfile, handles, nclosed, outfile_open,
                                newfile_exists>>
    /\ step_since_confirm' = 0
    /\ step_since_basis' = 0
    /\ untracked' = 0
    /\ pc' = "rebase"
    /\ UNCHANGED <<iter, mono, wall, span_on, zero_on, nevents, startup, sched, parsed, secs_since_write,
                   secs_since_flush, last_dt, pred_dt, lastwrite_monotonic,
                   lastflush_monotonic, totalvector, nopened, console,
                   nwritten, nprinted>>

\* lines 190-193: the confirmed time becomes the basis of the next prediction
Rebase ==
    /\ pc = "rebase"
    /\ last_dt' = curr_dt
    /\ lastwrite_monotonic' = mark_after_write(mono)
    /\ iter' = iter + 1
    /\ pc' = "sample"
    /\ UNCHANGED <<env, hist, startup, sched, parsed, secs_since_write,
                   secs_since_flush, pred_dt, curr_dt, diff_secs,
                   lastflush_monotonic, files>>

\* ------------------------------------------------------------ environment
\* A second passes between two statements of the loop.  The clocks are read at
\* lines 84, 133-143, 167 and 193 only, so a second that passes elsewhere is
\* the same as one that passes before the next of these lines.
Tick ==
    /\ pc \in {"sample", "check", "rebase"}
    /\ nevents < MaxEvents
    /\ nevents' = nevents + 1
    /\ mono' = mono + 1
    /\ wall' = wall + 1
    /\ untracked' = IF pc \in {"write", "flush", "check", "rebase"}
                    THEN untracked + 1 ELSE untracked
    /\ UNCHANGED <<pc, iter, newfile_exists, span_on, zero_on,
                   step_since_confirm, step_since_basis, startup,
                   sched, parsed, clock, files>>

\* The wall clock is set forward or backward: before line 84, between lines 84
\* and 143, or between lines 143 and 167 (after line 167 is before line 84).
ClockStep ==
    /\ pc \in {"sample", "open", "check"}
    /\ nevents < MaxEvents
    /\ \E d \in StepSecs :
         /\ wall' = wall + d
         /\ step_since_confirm' = step_since_confirm + d
         /\ step_since_basis' = step_since_basis + d
    /\ nevents' = nevents + 1
    /\ UNCHANGED <<pc, iter, mono, newfile_exists, span_on, zero_on,
                   untracked, startup, sched, parsed, clock,
                   files>>

\* Somebody touches newfile_path.  The path is looked at on line 182 only, so
\* a touch at any earlier point is the same as one just before line 166.
Touch ==
    /\ pc = "check"
    /\ nevents < MaxEvents
    /\ ~newfile_exists
    /\ newfile_exists' = TRUE
    /\ nevents' = nevents + 1
    /\ UNCHANGED <<pc, iter, mono, wall, span_on, zero_on, hist, startup, sched, parsed, clock, files>>

\* An output reports a state other than the one last commanded.  The outputs
\* are commanded on lines 99-106 and read back on line 152 only.
Drift ==
    /\ pc = "write"
    /\ hat_ok
    /\ nevents < MaxEvents
    /\ \/ span_on' = ~span_on /\ UNCHANGED zero_on
       \/ zero_on' = ~zero_on /\ UNCHANGED span_on
    /\ nevents' = nevents + 1
    /\ UNCHANGED <<pc, iter, mono, wall, newfile_exists, hist, startup, sched, parsed, clock, files>>

Next ==
    \/ SerialSetup \/ HatImport
    \/ Schedule \/ ReadParse \/ OpenFile \/ WriteLine \/ FlushPrint
    \/ CheckRotate \/ Rebase
    \/ Tick \/ ClockStep \/ Touch \/ Drift

Spec == Init /\ [][Next]_vars

\* ------------------------------------------------------------- properties
Last(q) == q[Len(q)]
LastKind(f) == IF f.lines = <<>> THEN "none" ELSE Last(f.lines).kind
ShiftCount(f) == Cardinality({i \in 1..Len(f.lines) : f.lines[i].kind = "shift"})
Bit(b) == IF b THEN 1 ELSE 0

\* C1: in every reachable state at most one log file is open; the open files
\* are exactly those opened and not yet closed, and the flag outfile_open
\* says whether there is one, so no file is opened while another is open.
AtMostOneOpenFile ==
    /\ handles <= 1
    /\ handles = nopened - nclosed
    /\ outfile_open <=> handles = 1

\* C1 witness: a second file is open after the first was closed.
AtMostOneOpenFileWitness ==
    /\ nopened >= 2
    /\ nclosed = nopened - 1
    /\ handles = 1
    /\ pc = "flush"

\* C2: after any closure the next iteration opens exactly one new file before
\* it writes: when the record is about to be written, and after it was
\* written, one file is open, every closure so far was followed by one
\* opening, the file starts with its header, and no write hits a closed file.
RecordWrittenToOpenFile ==
    /\ pc \in {"write", "flush", "check"} =>
          /\ outfile_open /\ handles = 1
          /\ nopened = nclosed + 1
          /\ outfile.lines[1].kind = "header"
    /\ pc \in {"flush", "check"} =>
          /\ Last(outfile.lines).kind = "data"
          /\ Last(outfile.lines).vec = totalvector
    /\ pc = "crashed" => ~hat_ok

\* C2 witness: the first record of a file opened after a closure.
RecordWrittenToOpenFileWitness ==
    /\ pc = "flush"
    /\ nclosed >= 1
    /\ Len(outfile.lines) = 2
    /\ outfile.lines[2].kind = "data"

\* C3: at a time strictly inside the span window the request is SPAN (2, span
\* commanded on and zero off), strictly inside the zero window it is ZERO (1,
\* zero on and span off), before the start and from the end on it is NONE.
ScheduleRequestsWindowMode ==
    pc = "read" =>
        LET calspan == replace_hour(walltime, cal_start_hour)
            calzero == calspan + cal_span_secs
            calend  == calzero + cal_zero_secs
        IN  /\ (walltime > calspan /\ walltime < calzero) =>
                  /\ request_calmode = 2
                  /\ span_cmd = "on" /\ zero_cmd = "off"
            /\ (walltime > calzero /\ walltime < calend) =>
                  /\ request_calmode = 1
                  /\ span_cmd = "off" /\ zero_cmd = "on"
            /\ (walltime < calspan \/ walltime >= calend) =>
                  /\ request_calmode = 0
                  /\ span_cmd = "off" /\ zero_cmd = "off"

\* C4: the windows are half-open: the start instant is scheduled like the
\* second after it (span window), the instant start+span like the second
\* after it (zero window), and the instant start+span+zero is outside (NONE).
CalibrationWindowsHalfOpen ==
    pc = "read" =>
        LET calspan == replace_hour(walltime, cal_start_hour)
            calzero == calspan + cal_span_secs
            calend  == calzero + cal_zero_secs
        IN  /\ walltime = calspan =>
                  /\ request_calmode = calc_request_calmode(calspan + 1)
                  /\ span_cmd = "on"
            /\ walltime = calzero =>
                  /\ request_calmode = calc_request_calmode(calzero + 1)
                  /\ zero_cmd = "on"
            /\ walltime = calend =>
                  /\ request_calmode = 0
                  /\ span_cmd = "off" /\ zero_cmd = "off"

\* C5: the calmode field of the record just written is what the two outputs
\* report (2*span + zero), whatever was requested; it is 0 when both are off.
\* (The outputs are neither commanded nor changed between lines 152 and 165.)
CalmodeIsReadback ==
    pc = "flush" =>
        /\ Last(outfile.lines).vec[2] = 2 * Bit(span_on) + Bit(zero_on)
        /\ (~span_on /\ ~zero_on) => Last(outfile.lines).vec[2] = 0

\* C5 witness: a record whose calmode differs from the request of its iteration.
CalmodeIsReadbackWitness ==
    /\ pc = "flush"
    /\ Last(outfile.lines).vec[2] # request_calmode
    /\ Last(outfile.lines).vec[2] = 2 * Bit(span_on) + Bit(zero_on)

\* C6: the record just written has 12 fields, and each instrument field whose
\* anchor is absent from the raw line, or whose segment lacks its unit, is "NaN".
MissingFieldsAreNaN ==
    pc = "flush" =>
        LET rec == Last(outfile.lines)
        IN  /\ rec.kind = "data"
            /\ Len(rec.vec) = Len(headernames)
            /\ \A ix \in 1..Len(position) :
                 LET strloc == find(datline, position[ix])
                 IN  (strloc = 0 \/ ~has_unit(dataval_at(datline, strloc), unit[ix]))
                        => rec.vec[Len(basevarnames) + ix] = NaN

\* C7: after the check of line 170, the file ends with the time-shift
\* annotation, right after the record, and is closed exactly when the sampled
\* wall-clock time differs from the record's predicted timestamp by more than
\* the threshold; otherwise the file holds no annotation; the loop goes on.
TimeShiftAnnotatedAndClosed ==
    pc = "rebase" =>
        LET n == Len(outfile.lines)
        IN  /\ exit_code = -1
            /\ diff_secs = curr_dt - pred_dt
            /\ totalvector[1] = pred_dt
            /\ IF Abs(curr_dt - pred_dt) > time_exception_secs
               THEN /\ outfile.lines[n].kind = "shift"
                    /\ outfile.lines[n].vec = <<curr_dt, pred_dt, curr_dt - pred_dt>>
                    /\ outfile.lines[n - 1].kind = "data"
                    /\ outfile.lines[n - 1].vec = totalvector
                    /\ ShiftCount(outfile) = 1
                    /\ handles = 0 /\ ~outfile_open
               ELSE /\ outfile.lines[n].kind = "data"
                    /\ outfile.lines[n].vec = totalvector
                    /\ ShiftCount(outfile) = 0

\* C7 witness: the wall clock was set back by more than the threshold.
TimeShiftAnnotatedAndClosedWitness ==
    /\ pc = "rebase"
    /\ diff_secs < -time_exception_secs
    /\ LastKind(outfile) = "shift"
    /\ handles = 0

\* C8 as stated: a step of more than the threshold since the previous
\* confirmation, wherever in the loop it happened, is raised at this one.
EveryClockStepRaised ==
    [][(pc = "check" /\ pc' = "rebase" /\ iter >= 1
          /\ Abs(step_since_confirm) > time_exception_secs)
        => LastKind(outfile') = "shift"]_vars

\* C8 amended: a confirmation raises a discontinuity, once, exactly when the
\* wall clock has moved by more than the threshold against the prediction
\* since the basis was sampled (at the opening of the file or at the previous
\* confirmation): the net step plus the seconds the monotonic difference
\* leaves out.  A step taken before the file was opened is not raised.  The
\* basis is rebased: the next prediction differs from the wall clock by
\* nothing but what happened since.
ClockStepSinceBasisRaisedOnce ==
    [][/\ (pc = "check" /\ pc' = "rebase") =>
            /\ curr_dt' = wall
            /\ diff_secs' = step_since_basis + untracked
            /\ ShiftCount(outfile') =
                 IF Abs(step_since_basis + untracked) > time_exception_secs
                 THEN 1 ELSE 0
       /\ (pc = "open" /\ pc' = "write") =>
            wall - (last_dt' + secs_since_write') = step_since_basis' + untracked'
      ]_vars

\* C8 witness: a step made while the file was open has been raised, in an
\* iteration after the first.
ClockStepSinceBasisRaisedOnceWitness ==
    /\ pc = "rebase"
    /\ iter >= 1
    /\ nclosed = 1
    /\ Abs(diff_secs) > time_exception_secs
    /\ LastKind(outfile) = "shift"

\* C9 as stated: whenever the sentinel exists at the check, that iteration
\* closes the file and deletes the sentinel, whatever else happens in it.
SentinelAlwaysConsumed ==
    [][(pc = "check" /\ pc' = "rebase" /\ newfile_exists)
        => (handles' = 0 /\ ~newfile_exists')]_vars

\* C9 amended: when the sentinel exists at the check, that iteration closes
\* the file; it deletes the sentinel unless it raises a time shift, in which
\* case the sentinel is left for the next iteration; and the next iteration
\* opens one new file that starts with the header.
SentinelConsumedUnlessShifted ==
    [][/\ (pc = "check" /\ pc' = "rebase" /\ newfile_exists) =>
            /\ handles' = 0 /\ ~outfile_open'
            /\ nclosed' = nclosed + 1
            /\ newfile_exists' <=> Abs(wall - pred_dt) > time_exception_secs
       /\ (pc = "open" /\ pc' = "write" /\ ~outfile_open) =>
            /\ outfile'.lines = <<header_line>>
            /\ nopened' = nopened + 1
            /\ handles' = 1 /\ outfile_open'
      ]_vars

\* C9 witness: a new file was opened after a rotation request was consumed.
SentinelConsumedUnlessShiftedWitness ==
    /\ pc = "write"
    /\ nclosed >= 1
    /\ newfile_request /\ ~newfile_exists
    /\ Abs(diff_secs) <= time_exception_secs
    /\ date(last_dt) = date(curr_dt)
    /\ outfile.lines = <<header_line>>

\* C10: when the date of the last confirmed timestamp is earlier than the
\* date of the newly confirmed wall-clock time, the file is closed in that
\* iteration.
DateRolloverClosesFile ==
    (pc = "rebase" /\ date(last_dt) < date(curr_dt)) =>
        /\ ~outfile_open
        /\ handles = 0
        /\ nclosed = nopened

\* C10 witness: the date changed with no time shift and no rotation request.
DateRolloverClosesFileWitness ==
    /\ pc = "rebase"
    /\ date(last_dt) < date(curr_dt)
    /\ Abs(diff_secs) <= time_exception_secs
    /\ ~newfile_request
    /\ handles = 0

\* C11 as stated: records are written in loop order and, except for the
\* record written right after a time-shift exception, the predicted timestamp
\* of a record is not smaller than that of the record before it, whatever the
\* wall clock was set to in between.
TimestampsNeverDecrease ==
    [][(pc = "write" /\ pc' = "flush" /\ iter >= 1
          /\ Abs(diff_secs) <= time_exception_secs)
        => /\ nwritten' = iter + 1
           /\ outfile'.lines = Append(outfile.lines, data_line(totalvector'))
           /\ pred_dt' >= pred_dt]_vars

\* C11 amended: records are written in loop order, one per iteration, and the
\* predicted timestamp of a record is not smaller than that of the record
\* before it when the wall clock read at the end of the previous iteration was
\* not behind that record's prediction and, for the first record of a new
\* file, the wall clock was not set back (net) between that reading and the
\* opening.
TimestampsNeverDecreaseWithoutBackwardStep ==
    [][(pc = "write" /\ pc' = "flush" /\ iter >= 1) =>
          /\ nwritten' = iter + 1
          /\ outfile'.lines = Append(outfile.lines, data_line(totalvector'))
          /\ totalvector'[1] = pred_dt'
          /\ (diff_secs >= 0 /\ (Len(outfile.lines) > 1 \/ step_since_confirm >= 0))
                => pred_dt' >= pred_dt
      ]_vars

\* C11 witness: a later record of a file, written after the wall clock was
\* found ahead of the prediction, carries a larger timestamp than the record
\* before it.
TimestampsNeverDecreaseWithoutBackwardStepWitness ==
    /\ pc = "flush"
    /\ iter >= 1
    /\ diff_secs > 0
    /\ Len(outfile.lines) >= 3
    /\ outfile.lines[Len(outfile.lines) - 1].kind = "data"
    /\ outfile.lines[Len(outfile.lines) - 1].vec[1] < Last(outfile.lines).vec[1]
    /\ Last(outfile.lines).vec[1] = pred_dt

\* C12: every iteration whose serial read returns writes exactly one data
\* line to the open file and prints the same line, whatever the line read was;
\* the ozone field is "NaN" when no number could be parsed (empty, truncated or
\* anchor-free line); and the time between two records of a file is at most
\* the read timeout plus the seconds spent between the statements.
RecordEveryIteration ==
    /\ pc \in {"open", "write"} => nwritten = iter /\ nprinted = iter
    /\ pc = "flush" => nwritten = iter + 1 /\ nprinted = iter
    /\ pc \in {"check", "rebase"} =>
          /\ nwritten = iter + 1 /\ nprinted = iter + 1
          /\ console = totalvector
    /\ pc \in {"flush", "check"} =>
          /\ Last(outfile.lines) = data_line(totalvector)
          /\ handles = 1
          /\ SubSeq(totalvector, 4, 12) = serialvector
          /\ datline \in GarbledLines => totalvector[4] = NaN
    /\ (pc = "open" /\ datline \in GarbledLines) => serialvector[1] = NaN
    /\ pc = "serial" => \A raw \in GarbledLines : parse_line(raw)[1] = NaN
    /\ (pc = "write" /\ Len(outfile.lines) > 1) =>
          secs_since_write <= ser_timeout + nevents

\* C12 witness: the read timed out with nothing received, in an iteration
\* after the first, and the record with ozone "NaN" is written and printed.
RecordEveryIterationWitness ==
    /\ pc = "check"
    /\ iter >= 1
    /\ datline = EmptyLine
    /\ Last(outfile.lines).kind = "data"
    /\ Last(outfile.lines).vec[4] = NaN
    /\ console = Last(outfile.lines).vec
    /\ nwritten = iter + 1

\* C13: whenever the serial read returns no data, the loop sends the
\* diagnostic-mode request 'd' again in that iteration, on top of the one sent
\* at startup.
SilenceResendsRequest ==
    [][(pc = "read" /\ pc' = "open" /\ datline' = EmptyLine)
        => sent_d' = sent_d + 1]_vars

\* C14: when explorerhat cannot be set up at startup the process goes on: it
\* does not end, and the loop keeps writing a record in every iteration.
HatFailureKeepsLogging ==
    (~hat_ok /\ pc \notin {"serial", "hat", "exited"}) =>
        /\ pc # "crashed"
        /\ exit_code = -1
        /\ pc \in {"check", "rebase"} => nwritten = iter + 1

\* C15: when the serial device cannot be opened or configured, the process
\* ends with a nonzero exit code before the loop starts: no file is created,
\* no output is commanded, no iteration runs, nothing is sent to the
\* instrument, and no further step is taken.
SerialFailureIsFatal ==
    /\ (pc # "serial" /\ sent_d = 0) => pc = "exited"
    /\ pc = "exited" =>
          /\ exit_code = 1
          /\ sent_d = 0
          /\ nopened = 0 /\ handles = 0 /\ nwritten = 0 /\ nprinted = 0
          /\ span_cmd = "none" /\ zero_cmd = "none"
          /\ iter = 0 /\ walltime = 0
          /\ ~ENABLED Next

\* C15 witness: the process has ended on a failed serial setup.
SerialFailureIsFatalWitness ==
    /\ pc = "exited"
    /\ exit_code = 1
    /\ sent_d = 0

\* C16: every log file starts with one header line that lists the 12 field
\* names, the base names followed by the instrument's names; the header is
\* written when the file is opened, before any data line, and no later line
\* of the file is a header.
FileStartsWithOneHeader ==
    /\ nopened = 0 => outfile.lines = <<>>
    /\ nopened >= 1 =>
          /\ Len(outfile.lines) >= 1
          /\ outfile.lines[1].kind = "header"
          /\ outfile.lines[1].vec = basevarnames \o varnames
          /\ Len(outfile.lines[1].vec) = 12
          /\ \A i \in 2..Len(outfile.lines) : outfile.lines[i].kind # "header"
    /\ (pc = "write" /\ nwritten = 0) => Len(outfile.lines) = 1

\* C16 witness: a second file, with its header and two records.
FileStartsWithOneHeaderWitness ==
    /\ nopened >= 2
    /\ Len(outfile.lines) = 3
    /\ outfile.lines[1].kind = "header"
    /\ outfile.lines[2].kind = "data"
    /\ outfile.lines[3].kind = "data"

\* C17 as stated: in every iteration in which a file is open and more than
\* flush_after_secs of monotonic time passed since the last flush, the file is
\* flushed without being closed and the mark is set to the current monotonic
\* time, the first iteration of a new file included.
FlushWheneverIntervalExceeded ==
    [][(pc = "flush" /\ pc' = "check" /\ handles = 1
          /\ mono - lastflush_monotonic > flush_after_secs)
        => /\ outfile'.flushed = Len(outfile'.lines)
           /\ lastflush_monotonic' = mono
           /\ handles' = 1]_vars

\* C17 amended: in an iteration that writes to a file opened in an earlier
\* iteration, the file is flushed, without being closed, and the mark is set
\* to the current monotonic time exactly when more than flush_after_secs
\* passed since the last flush; the iteration that opens a file never flushes
\* it and leaves the mark alone.
FlushWhenDueExceptOnOpening ==
    [][(pc = "flush" /\ pc' = "check") =>
          IF Len(outfile.lines) > 2
                /\ mono - lastflush_monotonic > flush_after_secs
          THEN /\ outfile'.flushed = Len(outfile'.lines)
               /\ outfile'.lines = outfile.lines
               /\ outfile'.name = outfile.name
               /\ lastflush_monotonic' = mono
               /\ handles' = 1 /\ outfile_open' /\ nclosed' = nclosed
          ELSE UNCHANGED <<outfile, lastflush_monotonic, handles>>
      ]_vars

\* C17 witness: a file that was open before this iteration has just been
\* flushed, and is still open.
FlushWhenDueExceptOnOpeningWitness ==
    /\ pc = "check"
    /\ Len(outfile.lines) >= 3
    /\ outfile.flushed = Len(outfile.lines)
    /\ lastflush_monotonic = mono
    /\ mono > flush_after_secs
    /\ handles = 1

\* C18: the timestamp of a record is last_dt + (monotonic now -
\* lastwrite_monotonic), where last_dt is the wall-clock time confirmed at the
\* end of the previous iteration and the mark was set there too; the first
\* record of a newly opened file is stamped with the wall-clock time at which
\* the file was opened; and with no step of the wall clock the timestamp is
\* the confirmed time plus the elapsed monotonic time exactly.
TimestampIsBasisPlusElapsed ==
    pc = "flush" =>
        /\ totalvector[1] = pred_dt
        /\ Last(outfile.lines).vec[1] = pred_dt
        /\ IF Len(outfile.lines) = 2
           THEN /\ pred_dt = outfile.name
                /\ pred_dt = wall
                /\ last_dt = wall /\ secs_since_write = 0
           ELSE /\ iter >= 1
                /\ last_dt = curr_dt
                /\ secs_since_write = mono - lastwrite_monotonic
                /\ pred_dt = curr_dt + (mono - lastwrite_monotonic)
                /\ step_since_basis = 0 => pred_dt = wall - untracked

\* C18 witness: a later record of a file, written some seconds after the mark.
TimestampIsBasisPlusElapsedWitness ==
    /\ pc = "flush"
    /\ iter >= 1
    /\ Len(outfile.lines) >= 3
    /\ mono - lastwrite_monotonic > 0
    /\ step_since_basis = 0
    /\ pred_dt = last_dt + (mono - lastwrite_monotonic)

\* C19: all data lines of one log file carry timestamps of the same calendar
\* date: no record predicted for the day after the file's earlier records is
\* written to that file.
FileHoldsOneDate ==
    \A i, j \in 1..Len(outfile.lines) :
        (outfile.lines[i].kind = "data" /\ outfile.lines[j].kind = "data")
            => date(outfile.lines[i].vec[1]) = date(outfile.lines[j].vec[1])

\* C20: a log file holds at most one time-shift annotation; when there is one
\* it is the last line of the file, it comes right after the data line whose
\* predicted timestamp it reports, and the file is closed; and every closed
\* file holds its header and at least one data line.
AnnotationEndsFile ==
    /\ ShiftCount(outfile) <= 1
    /\ \A i \in 1..Len(outfile.lines) :
          outfile.lines[i].kind = "shift" =>
              /\ i = Len(outfile.lines)
              /\ i >= 3
              /\ outfile.lines[i - 1].kind = "data"
              /\ outfile.lines[i].vec[2] = outfile.lines[i - 1].vec[1]
              /\ outfile.lines[i].vec[3] =
                     outfile.lines[i].vec[1] - outfile.lines[i].vec[2]
              /\ Abs(outfile.lines[i].vec[3]) > time_exception_secs
              /\ handles = 0
    /\ (handles = 0 /\ nopened >= 1) =>
          /\ Len(outfile.lines) >= 2
          /\ outfile.lines[1].kind = "header"
          /\ outfile.lines[2].kind = "data"
          /\ outfile.flushed = Len(outfile.lines)

\* C20 witness: a file closed on a time shift, after two records.
AnnotationEndsFileWitness ==
    /\ handles = 0
    /\ nclosed >= 1
    /\ Len(outfile.lines) = 4
    /\ outfile.lines[3].kind = "data"
    /\ outfile.lines[4].kind = "shift"

====
